---- MODULE Spec2Model ----
(***************************************************************************)
(* A model of pysteam/vtf/reader.py: the VTF header decoder, the image     *)
(* locator, the format geometry, the raw pixel decoder and the VTFFile     *)
(* container with its get_image operation.                                 *)
(*                                                                         *)
(* A byte buffer is a sequence of integers 0..255.  Python position p of a *)
(* buffer is index p+1 of the sequence.  An operation that can raise       *)
(* returns a record [ok, val, err]: ok = TRUE with the value, or ok =      *)
(* FALSE with the name of the exception.                                   *)
(***************************************************************************)
EXTENDS Integers, Sequences, FiniteSets, TLC

VARIABLES
    data,        \* the bytes given to VTFFile(data); self.data once constructed
    pc,          \* "new" | "ready" | "failed" (containers), "probe" (geometry)
    header,      \* self.header
    hri_offset,  \* self.hri_offset
    error,       \* the exception __init__ raised, "none" otherwise
    result,      \* what the last get_image call returned or raised
    sizeProbe,   \* the last two direct byte_size_fmt calls
    chainProbe   \* the last two direct fmt_mip_offset calls

vars == <<data, pc, header, hri_offset, error, result, sizeProbe, chainProbe>>

(***************************************************************************)
(* Bounds of the model.                                                    *)
(***************************************************************************)
MaxDim == 2        \* header width and height range over 1..MaxDim
MaxMips == 2       \* header mipmap_count and the mip argument: 0..MaxMips
MaxFrames == 2     \* stored frame_count and the frame argument: 0..MaxFrames
MaxProbeDim == 6   \* direct byte_size_fmt calls: dimensions 0..MaxProbeDim
MaxChainDim == 4   \* direct fmt_mip_offset calls: base dimensions 1..MaxChainDim
MaxChainMips == 3  \* direct fmt_mip_offset calls: mip counts 0..MaxChainMips

(***************************************************************************)
(* Program constants.                                                      *)
(***************************************************************************)
ThumbBase == 64        \* 0x40
FrameSlack == 16       \* 0x10
DirStart == 80         \* 0x50
HriTag == 48           \* 0x30
LegacyOffset == 232    \* 0xE8
ScanLimit == 10        \* range(10)
Opaque == 255          \* synthesized alpha

Ok(v) == [ok |-> TRUE, val |-> v, err |-> "none"]
Err(e) == [ok |-> FALSE, val |-> 0, err |-> e]

Min(a, b) == IF a <= b THEN a ELSE b

\* Python's s[a:b] for 0 <= a.
Slice(s, a, b) == SubSeq(s, a + 1, Min(b, Len(s)))

RECURSIVE Pow2(_)
Pow2(n) == IF n = 0 THEN 1 ELSE 2 * Pow2(n - 1)

\* x >> n
Shr(x, n) == x \div Pow2(n)

\* Little-endian value of a byte sequence (struct's '<I', '<H', '<B').
RECURSIVE LEValue(_)
LEValue(b) == IF b = <<>> THEN 0 ELSE b[1] + 256 * LEValue(Tail(b))

\* struct.unpack of n bytes read at position pos: struct.error on a short read.
ReadInt(d, pos, n) ==
    LET b == Slice(d, pos, pos + n)
    IN  IF Len(b) = n THEN Ok(LEValue(b)) ELSE Err("struct.error")

_read_uint(d, pos) == ReadInt(d, pos, 4)
_read_ushort(d, pos) == ReadInt(d, pos, 2)
_read_byte(d, pos) == ReadInt(d, pos, 1)

\* b"VTF\0"
VTFSig == <<86, 84, 70, 0>>

\* Mutant of OrOne: the stored value is kept, zero included.
OrOneKept(v) == v

\* frame_count = _read_ushort(fp) or 1
OrOne(v) == IF v = 0 THEN 1 ELSE v

(***************************************************************************)
(* read_header: the cursor position of every read and seek, in order.      *)
(* The float fields are unpacked but never interpreted: only whether their *)
(* bytes are all there is modelled.                                        *)
(***************************************************************************)
read_header(d) ==
    LET pSig == 0
        pVersion == pSig + 4
        pHeaderSize == pVersion + 8
        pWidth == pHeaderSize + 4
        pHeight == pWidth + 2
        pFlags == pHeight + 2
        pFrameCount == pFlags + 4
        pFirstFrame == pFrameCount + 2
        pReflectivity == pFirstFrame + 2 + 4
        pBumpmap == pReflectivity + 12 + 4
        pHighFmt == pBumpmap + 4
        pMipmapCount == pHighFmt + 4
        pLowFmt == pMipmapCount + 1
        pLowWidth == pLowFmt + 4
        pLowHeight == pLowWidth + 1
        pDepth == pLowHeight + 1
        pResourceCount == pDepth + 2 + 3
        reads == << _read_uint(d, pVersion), _read_uint(d, pVersion + 4),
                    _read_uint(d, pHeaderSize), _read_ushort(d, pWidth),
                    _read_ushort(d, pHeight), _read_uint(d, pFlags),
                    _read_ushort(d, pFrameCount), _read_ushort(d, pFirstFrame),
                    ReadInt(d, pReflectivity, 12), _read_uint(d, pBumpmap),
                    _read_uint(d, pHighFmt), _read_byte(d, pMipmapCount),
                    _read_uint(d, pLowFmt), _read_byte(d, pLowWidth),
                    _read_byte(d, pLowHeight), _read_ushort(d, pDepth),
                    _read_uint(d, pResourceCount) >>
    IN  IF Slice(d, pSig, pSig + 4) /= VTFSig THEN Err("ValueError")
        ELSE IF \E i \in DOMAIN reads : ~reads[i].ok THEN Err("struct.error")
        ELSE Ok([ sig |-> Slice(d, pSig, pSig + 4),
                  version |-> <<reads[1].val, reads[2].val>>,
                  header_size |-> reads[3].val,
                  width |-> reads[4].val,
                  height |-> reads[5].val,
                  flags |-> reads[6].val,
                  frame_count |-> OrOne(reads[7].val),
                  first_frame |-> reads[8].val,
                  high_fmt |-> reads[11].val,
                  mipmap_count |-> reads[12].val,
                  low_fmt |-> reads[13].val,
                  low_width |-> reads[14].val,
                  low_height |-> reads[15].val,
                  depth |-> reads[16].val,
                  resource_count |-> reads[17].val ])

(***************************************************************************)
(* Format geometry.                                                        *)
(***************************************************************************)
\* x & 3 on a non-negative x is x % 4.
ruf(x) == x + ((4 - (x % 4)) % 4)

\* Mutant of byte_size_fmt: ARGB and BGRA counted as 3-byte formats.
byte_size_fmt_bpp3(fmt, w, h) ==
    IF fmt \in {0, 1} THEN Ok(w * h * 4)
    ELSE IF fmt \in {2, 3, 11, 12} THEN Ok(w * h * 3)
    ELSE IF fmt = 13 THEN Ok((ruf(w) * ruf(h)) \div 2)
    ELSE IF fmt \in {14, 15} THEN Ok(ruf(w) * ruf(h))
    ELSE Err("ValueError")

byte_size_fmt(fmt, w, h) ==
    IF fmt \in {0, 1, 11, 12} THEN Ok(w * h * 4)
    ELSE IF fmt \in {2, 3} THEN Ok(w * h * 3)
    ELSE IF fmt = 13 THEN Ok((ruf(w) * ruf(h)) \div 2)
    ELSE IF fmt \in {14, 15} THEN Ok(ruf(w) * ruf(h))
    ELSE Err("ValueError")

\* The loop of fmt_mip_offset from index i on: offset accumulates, a raise
\* of byte_size_fmt ends it.
RECURSIVE MipLoop(_, _, _, _, _, _, _)
MipLoop(fmt, w, h, mpm_ct, frame_ct, i, offset) ==
    IF i >= mpm_ct THEN Ok(offset)
    ELSE LET s == byte_size_fmt(fmt, Shr(w, i), Shr(h, i))
         IN  IF ~s.ok THEN s
             ELSE MipLoop(fmt, w, h, mpm_ct, frame_ct, i + 1,
                          offset + s.val * frame_ct)

\* Mutant of fmt_mip_offset: the pyramid taken largest-first, summing the
\* mips below the target.
fmt_mip_offset_forward(fmt, w, h, mpm_ct, frame_ct, mip) ==
    MipLoop(fmt, w, h, mip, frame_ct, 0, 0)

fmt_mip_offset(fmt, w, h, mpm_ct, frame_ct, mip) ==
    MipLoop(fmt, w, h, mpm_ct, frame_ct, mip + 1, 0)

(***************************************************************************)
(* Image locator.                                                          *)
(***************************************************************************)
\* The scan loop with the cursor at pos and left iterations to go.
RECURSIVE ScanDir(_, _, _)
ScanDir(d, pos, left) ==
    IF left = 0 THEN Ok(LegacyOffset)
    ELSE LET b == Slice(d, pos, pos + 1)
         IN  IF b = <<>> THEN Ok(LegacyOffset)
             ELSE IF b[1] = HriTag THEN _read_uint(d, pos + 1 + 3)
             ELSE ScanDir(d, pos + 1 + 7, left - 1)

\* Mutant of get_hri_location: minor 2 without the per-frame slack.
get_hri_location_no_slack(d, hdr) ==
    LET low == byte_size_fmt(hdr.low_fmt, hdr.low_width, hdr.low_height)
    IN  IF hdr.version[2] \in {1, 2}
        THEN IF low.ok THEN Ok(ThumbBase + low.val) ELSE low
        ELSE ScanDir(d, DirStart, ScanLimit)

\* Mutant of get_hri_location: the low-res plane size computed before the
\* version is looked at, so that its raise reaches every version.
get_hri_location_eager(d, hdr) ==
    LET low == byte_size_fmt(hdr.low_fmt, hdr.low_width, hdr.low_height)
    IN  IF ~low.ok THEN low
        ELSE IF hdr.version[2] = 1 THEN Ok(ThumbBase + low.val)
        ELSE IF hdr.version[2] = 2
        THEN Ok(ThumbBase + low.val + FrameSlack * hdr.frame_count)
        ELSE ScanDir(d, DirStart, ScanLimit)

get_hri_location(d, hdr) ==
    LET low == byte_size_fmt(hdr.low_fmt, hdr.low_width, hdr.low_height)
    IN  IF hdr.version[2] = 1
        THEN IF low.ok THEN Ok(ThumbBase + low.val) ELSE low
        ELSE IF hdr.version[2] = 2
        THEN IF low.ok THEN Ok(ThumbBase + low.val + FrameSlack * hdr.frame_count)
             ELSE low
        ELSE ScanDir(d, DirStart, ScanLimit)

(***************************************************************************)
(* Pixel decoder.                                                          *)
(***************************************************************************)
\* Mutant of RawPixel: BGRA unpacked in ARGB order.
RawPixelBgraAsArgb(fmt, px) ==
    CASE fmt = 1 -> <<px[4], px[3], px[2], px[1]>>
      [] fmt = 2 -> <<px[1], px[2], px[3], Opaque>>
      [] fmt = 3 -> <<px[3], px[2], px[1], Opaque>>
      [] fmt = 11 -> <<px[2], px[3], px[4], px[1]>>
      [] fmt = 12 -> <<px[2], px[3], px[4], px[1]>>

\* One output pixel (r, g, b, a) from the source pixel's bytes, as the
\* branch of _decode_raw for fmt unpacks and repacks them.
RawPixel(fmt, px) ==
    CASE fmt = 1 -> <<px[4], px[3], px[2], px[1]>>
      [] fmt = 2 -> <<px[1], px[2], px[3], Opaque>>
      [] fmt = 3 -> <<px[3], px[2], px[1], Opaque>>
      [] fmt = 11 -> <<px[2], px[3], px[4], px[1]>>
      [] fmt = 12 -> <<px[3], px[2], px[1], px[4]>>

\* Mutant of RawStride: every format stepped by 4 bytes.
RawStrideFour(fmt) == 4

\* Source bytes per pixel of the per-pixel branches.
RawStride(fmt) == IF fmt \in {2, 3} THEN 3 ELSE 4

\* The per-pixel loop from pixel i on, out being the pixels written so far.
RECURSIVE RawLoop(_, _, _, _, _)
RawLoop(d, fmt, n, i, out) ==
    IF i >= n THEN Ok(out)
    ELSE LET px == Slice(d, i * RawStride(fmt), i * RawStride(fmt) + RawStride(fmt))
         IN  IF Len(px) /= RawStride(fmt) THEN Err("ValueError")
             ELSE RawLoop(d, fmt, n, i + 1, out \o RawPixel(fmt, px))

_decode_raw(d, fmt, w, h) ==
    IF fmt = 0 THEN Ok(d)
    ELSE IF fmt \in {1, 2, 3, 11, 12} THEN RawLoop(d, fmt, w * h, 0, <<>>)
    ELSE Err("ValueError")

\* The external block decompressor (pysteam/vtf/dxt.py): an RGBA8 buffer of
\* w*h*4 bytes whose contents are not modelled.
decode_dxt(block, fmt, w, h) == Ok([j \in 1..(w * h * 4) |-> 0])

(***************************************************************************)
(* Container facade: VTFFile.                                              *)
(***************************************************************************)
\* What a call that raised leaves behind.  offset, size and block record the
\* slice the call read, when it got that far.
NoImage(status, frame, mip) ==
    [ op |-> "get_image", frame |-> frame, mip |-> mip, status |-> status,
      w |-> 0, h |-> 0, pixels |-> <<>>, offset |-> 0, size |-> 0,
      block |-> <<>>, via |-> "none" ]

\* The tail of get_image once the plane's offset and size are known:
\* the slice, and the choice of decoder.
DecodePlane(d, hdr, frame, mip, w, ht, offset, size) ==
    LET block == Slice(d, offset, offset + size)
        dxt == hdr.high_fmt \in {13, 15}
        dec == IF dxt THEN decode_dxt(block, hdr.high_fmt, w, ht)
               ELSE _decode_raw(block, hdr.high_fmt, w, ht)
    IN  IF ~dec.ok
        THEN [ NoImage(dec.err, frame, mip) EXCEPT
                 !.offset = offset, !.size = size, !.block = block,
                 !.via = IF dxt THEN "decode_dxt" ELSE "_decode_raw" ]
        ELSE [ op |-> "get_image", frame |-> frame, mip |-> mip, status |-> "ok",
               w |-> w, h |-> ht, pixels |-> dec.val, offset |-> offset,
               size |-> size, block |-> block,
               via |-> IF dxt THEN "decode_dxt" ELSE "_decode_raw" ]

\* Mutant of OutOfRange: > where the code has >=.
OutOfRangeStrict(hdr, frame, mip) ==
    frame > hdr.frame_count \/ mip > hdr.mipmap_count

\* The bounds checks of get_image: TRUE when the call raises IndexError.
OutOfRange(hdr, frame, mip) ==
    frame >= hdr.frame_count \/ mip >= hdr.mipmap_count

\* Mutant of get_image: the frame left out of the plane's offset.
get_image_frame_zero(d, hdr, hri, frame, mip) ==
    IF OutOfRange(hdr, frame, mip) THEN NoImage("IndexError", frame, mip)
    ELSE LET w == Shr(hdr.width, mip)
             ht == Shr(hdr.height, mip)
             chain == fmt_mip_offset(hdr.high_fmt, hdr.width, hdr.height,
                                     hdr.mipmap_count, hdr.frame_count, mip)
             plane == byte_size_fmt(hdr.high_fmt, w, ht)
         IN  IF ~chain.ok THEN NoImage(chain.err, frame, mip)
             ELSE IF ~plane.ok THEN NoImage(plane.err, frame, mip)
             ELSE DecodePlane(d, hdr, frame, mip, w, ht, hri + chain.val, plane.val)

get_image(d, hdr, hri, frame, mip) ==
    IF OutOfRange(hdr, frame, mip) THEN NoImage("IndexError", frame, mip)
    ELSE LET w == Shr(hdr.width, mip)
             ht == Shr(hdr.height, mip)
             chain == fmt_mip_offset(hdr.high_fmt, hdr.width, hdr.height,
                                     hdr.mipmap_count, hdr.frame_count, mip)
             plane == byte_size_fmt(hdr.high_fmt, w, ht)
         IN  IF ~chain.ok THEN NoImage(chain.err, frame, mip)
             ELSE IF ~plane.ok THEN NoImage(plane.err, frame, mip)
             ELSE DecodePlane(d, hdr, frame, mip, w, ht,
                              hri + chain.val + plane.val * frame, plane.val)

(***************************************************************************)
(* Input files.  A file is the 80 bytes read_header walks over, a resource *)
(* directory, and position-dependent filler bytes up to FileLen; it may be *)
(* cut short or have its signature damaged.                                *)
(***************************************************************************)
RECURSIVE LEBytes(_, _)
LEBytes(v, n) == IF n = 0 THEN <<>> ELSE <<v % 256>> \o LEBytes(v \div 256, n - 1)

Junk(n) == [i \in 1..n |-> 170]

\* The byte at position p is 10 * (p - 87) modulo 256: 10, 20, 30, 40 from
\* position 88 on, and no two equal within 128 bytes.
Filler(from, to) == [i \in 1..(to - from) |-> ((from + i - 1 + 169) * 10) % 256]

FileLen == ThumbBase + 8 + FrameSlack * MaxFrames + 8 * MaxFrames * MaxDim * MaxDim

HeaderBytes(p) ==
    VTFSig \o LEBytes(7, 4) \o LEBytes(p.minor, 4) \o LEBytes(80, 4)
    \o LEBytes(p.width, 2) \o LEBytes(p.height, 2) \o LEBytes(0, 4)
    \o LEBytes(p.frames, 2) \o LEBytes(0, 2) \o Junk(4)
    \o LEBytes(0, 12) \o Junk(4) \o LEBytes(0, 4)
    \o LEBytes(p.high_fmt, 4) \o LEBytes(p.mips, 1)
    \o LEBytes(p.low[1], 4) \o LEBytes(p.low[2], 1) \o LEBytes(p.low[3], 1)
    \o LEBytes(1, 2) \o Junk(3) \o LEBytes(0, 4) \o Junk(8)

DirEntry(tag, off) == <<tag>> \o Junk(3) \o LEBytes(off, 4)

RECURSIVE OtherEntries(_)
OtherEntries(n) == IF n = 0 THEN <<>> ELSE DirEntry(1, 0) \o OtherEntries(n - 1)

\* Resource directories: none; the high-res entry first; second; behind
\* ScanLimit other entries; first, pointing past the end of the file.
Dirs == {"none", "first", "second", "eleventh", "far"}

DirBytes(dir) ==
    CASE dir = "none" -> <<>>
      [] dir = "first" -> DirEntry(HriTag, DirStart + 8)
      [] dir = "second" -> DirEntry(1, 0) \o DirEntry(HriTag, DirStart + 16)
      [] dir = "eleventh" ->
            OtherEntries(ScanLimit) \o DirEntry(HriTag, DirStart + 8 * (ScanLimit + 1))
      [] dir = "far" -> DirEntry(HriTag, 256 + DirStart + 8)

FullFile(p) ==
    LET base == HeaderBytes(p) \o DirBytes(p.dir)
    IN  base \o Filler(Len(base), FileLen)

\* Whole, cut inside a plane, cut inside the first directory entry, cut
\* right after the last header field, cut inside the header, damaged.
Shapes == {"whole", "cutPlane", "cutEntry", "cutPad", "cutHeader", "badSig"}

Shaped(f, shape) ==
    CASE shape = "whole" -> f
      [] shape = "cutPlane" -> Slice(f, 0, 100)
      [] shape = "cutEntry" -> Slice(f, 0, DirStart + 5)
      [] shape = "cutPad" -> Slice(f, 0, 72)
      [] shape = "cutHeader" -> Slice(f, 0, 71)
      [] shape = "badSig" -> <<66>> \o Tail(f)

Formats == {0, 1, 2, 3, 11, 12, 13, 14, 15, 16}
LowChoices == {<<13, 4, 4>>, <<13, 0, 0>>, <<16, 4, 4>>}

\* <<version.minor, <<low_fmt, low_width, low_height>>, directory>>
Families ==
    ({1, 2} \X LowChoices \X {"none"})
    \cup ({3} \X {<<13, 4, 4>>} \X Dirs)
    \cup ({4} \X {<<13, 4, 4>>} \X {"none", "second"})
    \cup {<<0, <<13, 4, 4>>, "first">>, <<3, <<16, 4, 4>>, "first">>}

Inputs ==
    { [ minor |-> fam[1], low |-> fam[2], dir |-> fam[3], width |-> w,
        height |-> h, frames |-> fr, mips |-> m, high_fmt |-> fmt ] :
      fam \in Families, w \in 1..MaxDim, h \in 1..MaxDim, fr \in 0..MaxFrames,
      m \in 0..MaxMips, fmt \in Formats }
    \cup
    \* a stored frame_count whose low byte is 0
    { [ minor |-> 3, low |-> <<13, 4, 4>>, dir |-> "first", width |-> w,
        height |-> 1, frames |-> 256, mips |-> 1, high_fmt |-> fmt ] :
      w \in 1..MaxDim, fmt \in {0, 13} }

\* The inputs that are also given cut short or damaged.
DamagedInputs ==
    { p \in Inputs : p.frames = 1 /\ p.mips = 1 /\ p.height = p.width }

NoProbe == <<>>
NoResult == [ NoImage("none", 0, 0) EXCEPT !.op = "none" ]

Init ==
    /\ \E p \in Inputs, shape \in Shapes :
          /\ shape = "whole" \/ p \in DamagedInputs
          /\ data = Shaped(FullFile(p), shape)
    /\ pc = "new"
    /\ header = "unset"
    /\ hri_offset = 0
    /\ error = "none"
    /\ result = NoResult
    /\ sizeProbe = NoProbe
    /\ chainProbe = NoProbe

\* VTFFile.__init__
Construct ==
    /\ pc = "new"
    /\ LET h == read_header(data)
           loc == get_hri_location(data, h.val)
       IN  IF ~h.ok
           THEN /\ pc' = "failed" /\ error' = h.err
                /\ UNCHANGED <<header, hri_offset>>
           ELSE IF ~loc.ok
           THEN /\ pc' = "failed" /\ error' = loc.err
                /\ UNCHANGED <<header, hri_offset>>
           ELSE /\ pc' = "ready" /\ header' = h.val /\ hri_offset' = loc.val
                /\ UNCHANGED error
    /\ UNCHANGED <<data, result, sizeProbe, chainProbe>>

\* VTFFile.get_image
GetImage(frame, mip) ==
    /\ pc = "ready"
    /\ result' = get_image(data, header, hri_offset, frame, mip)
    /\ UNCHANGED <<data, pc, header, hri_offset, error, sizeProbe, chainProbe>>

Next ==
    \/ Construct
    \/ \E frame \in 0..MaxFrames, mip \in 0..MaxMips : GetImage(frame, mip)

Spec == Init /\ [][Next]_vars

(***************************************************************************)
(* Direct calls of the format geometry.  The format (and, for the mip      *)
(* chain, the base dimensions and the counts) are fixed by the initial     *)
(* state; every call records its arguments and what it returned, and the   *)
(* call before it is kept for comparison.                                  *)
(***************************************************************************)
NoCall == [ set |-> FALSE, w |-> 0, h |-> 0, mip |-> 0, out |-> Err("none") ]

Idle ==
    /\ data = <<>>
    /\ pc = "probe"
    /\ header = "unset"
    /\ hri_offset = 0
    /\ error = "none"
    /\ result = NoResult

InitPlane ==
    /\ Idle
    /\ \E fmt \in Formats : sizeProbe = [ fmt |-> fmt, prev |-> NoCall, cur |-> NoCall ]
    /\ chainProbe = NoProbe

\* byte_size_fmt(fmt, w, h), called directly
ProbeByteSize(w, h) ==
    /\ pc = "probe"
    /\ sizeProbe' = [ sizeProbe EXCEPT
                        !.prev = sizeProbe.cur,
                        !.cur = [ set |-> TRUE, w |-> w, h |-> h, mip |-> 0,
                                  out |-> byte_size_fmt(sizeProbe.fmt, w, h) ] ]
    /\ UNCHANGED <<data, pc, header, hri_offset, error, result, chainProbe>>

NextPlane == \E w \in 0..MaxProbeDim, h \in 0..MaxProbeDim : ProbeByteSize(w, h)

SpecPlane == InitPlane /\ [][NextPlane]_vars

InitChain ==
    /\ Idle
    /\ sizeProbe = NoProbe
    /\ \E fmt \in Formats, w \in 1..MaxChainDim, h \in 1..MaxChainDim,
          n \in 0..MaxChainMips, fr \in 1..MaxFrames :
          chainProbe = [ fmt |-> fmt, w |-> w, h |-> h, mpm_ct |-> n,
                         frame_ct |-> fr, prev |-> NoCall, cur |-> NoCall ]

\* fmt_mip_offset(fmt, w, h, mpm_ct, frame_ct, mip), called directly
ProbeMipOffset(mip) ==
    /\ pc = "probe"
    /\ chainProbe' = [ chainProbe EXCEPT
                         !.prev = chainProbe.cur,
                         !.cur = [ set |-> TRUE, w |-> 0, h |-> 0, mip |-> mip,
                                   out |-> fmt_mip_offset(chainProbe.fmt, chainProbe.w,
                                              chainProbe.h, chainProbe.mpm_ct,
                                              chainProbe.frame_ct, mip) ] ]
    /\ UNCHANGED <<data, pc, header, hri_offset, error, result, sizeProbe>>

NextChain == \E mip \in 0..MaxChainMips : ProbeMipOffset(mip)

SpecChain == InitChain /\ [][NextChain]_vars

(***************************************************************************)
(* Properties.                                                             *)
(***************************************************************************)
Recognised == {0, 1, 2, 3, 11, 12, 13, 14, 15}
Uncompressed == {0, 1, 2, 3, 11, 12}
FourChannel == {0, 1, 11, 12}
BlockCompressed == {13, 14, 15}

\* Two consecutive direct fmt_mip_offset calls for target mips k and k+1,
\* with 0 <= k < mpm_ct - 1, on a recognised format.
ChainPair ==
    /\ pc = "probe" /\ chainProbe /= NoProbe
    /\ chainProbe.prev.set /\ chainProbe.cur.set
    /\ chainProbe.fmt \in Recognised
    /\ chainProbe.cur.mip = chainProbe.prev.mip + 1
    /\ chainProbe.prev.mip < chainProbe.mpm_ct - 1

\* C5 as stated: mip_chain_offset is strictly decreasing in the target mip,
\* offset(k) > offset(k+1) for all 0 <= k < n-1, whatever the base
\* dimensions are.
C5_StrictlyDecreasing ==
    ChainPair => chainProbe.prev.out.val > chainProbe.cur.out.val

\* C5 amended: mip_chain_offset is non-increasing in the target mip, and
\* offset(k) > offset(k+1) whenever the plane of mip k+1 is not empty, that
\* is whenever both base dimensions shifted right by k+1 are at least 1.
C5_DecreasingWherePlaneNonEmpty ==
    ChainPair =>
        /\ chainProbe.prev.out.ok /\ chainProbe.cur.out.ok
        /\ chainProbe.prev.out.val >= chainProbe.cur.out.val
        /\ (/\ chainProbe.w >= Pow2(chainProbe.cur.mip)
            /\ chainProbe.h >= Pow2(chainProbe.cur.mip))
           => chainProbe.prev.out.val > chainProbe.cur.out.val

\* C5 witness: a strict decrease between two stored mips of a 4x4 texture
\* with three mips.
C5_Witness ==
    /\ ChainPair
    /\ chainProbe.w = 4 /\ chainProbe.h = 4 /\ chainProbe.mpm_ct = 3
    /\ chainProbe.prev.mip = 1
    /\ chainProbe.prev.out.val > chainProbe.cur.out.val
    /\ chainProbe.cur.out.val = 0

\* Two consecutive direct byte_size_fmt calls on a recognised format, the
\* second with dimensions at least those of the first.
SizePair ==
    /\ pc = "probe" /\ sizeProbe /= NoProbe
    /\ sizeProbe.fmt \in Recognised
    /\ sizeProbe.prev.set /\ sizeProbe.cur.set
    /\ sizeProbe.prev.w <= sizeProbe.cur.w
    /\ sizeProbe.prev.h <= sizeProbe.cur.h

\* C6: for every recognised format plane_byte_size is non-decreasing in
\* width and in height, and for the 4-channel uncompressed formats it is
\* exactly width * height * 4.
C6_PlaneSizeMonotone ==
    /\ SizePair =>
          /\ sizeProbe.prev.out.ok /\ sizeProbe.cur.out.ok
          /\ sizeProbe.prev.out.val <= sizeProbe.cur.out.val
    /\ (/\ pc = "probe" /\ sizeProbe /= NoProbe
        /\ sizeProbe.cur.set /\ sizeProbe.fmt \in FourChannel)
       => /\ sizeProbe.cur.out.ok
          /\ sizeProbe.cur.out.val = sizeProbe.cur.w * sizeProbe.cur.h * 4

\* C6 witness: a block-compressed size that stays the same from width 1 to
\* width 4 and a 4-channel size of 3 * 5 * 4 bytes are both seen.
C6_Witness ==
    /\ pc = "probe" /\ sizeProbe /= NoProbe
    /\ sizeProbe.prev.set /\ sizeProbe.cur.set
    /\ \/ /\ sizeProbe.fmt = 13
          /\ sizeProbe.prev.w = 1 /\ sizeProbe.cur.w = 4
          /\ sizeProbe.prev.h = 5 /\ sizeProbe.cur.h = 5
          /\ sizeProbe.prev.out.val = 16 /\ sizeProbe.cur.out.val = 16
       \/ /\ sizeProbe.fmt = 12
          /\ sizeProbe.prev.w = 2 /\ sizeProbe.cur.w = 3
          /\ sizeProbe.prev.h = 5 /\ sizeProbe.cur.h = 5
          /\ sizeProbe.cur.out.val = 60

\* The accessor VTFFile.frame_count.
frame_count == header.frame_count

\* The two bytes of the buffer that store frame_count, as a number.
StoredFrameCount == data[25] + 256 * data[26]

\* C7: in every constructed container frame_count >= 1: a stored
\* frame_count of 0 is normalised to 1, any other stored value is kept.
C7_FrameCountAtLeastOne ==
    pc = "ready" =>
        /\ frame_count >= 1
        /\ StoredFrameCount = 0 => frame_count = 1
        /\ StoredFrameCount /= 0 => frame_count = StoredFrameCount

\* C7 witness: a container built from a file that stores frame_count 0, after
\* a get_image call.
C7_Witness ==
    /\ pc = "ready" /\ StoredFrameCount = 0 /\ frame_count = 1
    /\ result.op = "get_image" /\ result.status = "ok"

\* The last get_image call had both arguments within the header's counts.
InRange ==
    /\ pc = "ready" /\ result.op = "get_image"
    /\ result.frame < header.frame_count
    /\ result.mip < header.mipmap_count

\* plane_byte_size of mip level mip of the container's high-res image.
PlaneSize(mip) ==
    byte_size_fmt(header.high_fmt, Shr(header.width, mip), Shr(header.height, mip)).val

\* hri_offset + mip_chain_offset(mip) + plane_byte_size * frame
PlaneStart(frame, mip) ==
    hri_offset
    + fmt_mip_offset(header.high_fmt, header.width, header.height,
                     header.mipmap_count, header.frame_count, mip).val
    + PlaneSize(mip) * frame

\* The dimensions and the buffer length a decoded image must have.
WellFormedImage ==
    /\ result.status = "ok"
    /\ result.w = Shr(header.width, result.mip)
    /\ result.h = Shr(header.height, result.mip)
    /\ Len(result.pixels) = result.w * result.h * 4

\* C1: get_image(frame, mip) fails with OutOfRange whenever frame >=
\* frame_count or mip >= mipmap_count, and the failing call leaves the
\* header, the byte buffer and hri_offset as they were, so that the
\* get_image call made before it returns afterwards what it returned then.
C1_OutOfRangeFailsAndKeepsState ==
    [][ (/\ pc = "ready" /\ result' /= result
         /\ \/ result'.frame >= header.frame_count
            \/ result'.mip >= header.mipmap_count)
        => /\ result'.status = "IndexError"
           /\ header' = header /\ data' = data /\ hri_offset' = hri_offset
           /\ result.op = "get_image" =>
                 get_image(data', header', hri_offset', result.frame, result.mip)
                 = result ]_vars

\* C1 witness: a call with mip = mipmap_count and a frame in range has
\* raised IndexError on a container that holds at least one mip.
C1_Witness ==
    /\ pc = "ready" /\ result.op = "get_image"
    /\ result.status = "IndexError"
    /\ result.frame < header.frame_count
    /\ result.mip = header.mipmap_count
    /\ header.mipmap_count >= 1

\* C2 as stated: on every constructed container with an uncompressed
\* high_res_format every in-range get_image succeeds and returns width =
\* base_width >> mip, height = base_height >> mip and width * height * 4
\* bytes of pixels.
C2_EveryInRangeCallSucceeds ==
    (InRange /\ header.high_fmt \in Uncompressed) => WellFormedImage

\* C2 amended: the same, for the calls whose plane lies inside the buffer,
\* that is PlaneStart + PlaneSize <= the length of the buffer.
C2_InRangeCallOnStoredPlaneSucceeds ==
    (/\ InRange /\ header.high_fmt \in Uncompressed
     /\ PlaneStart(result.frame, result.mip) + PlaneSize(result.mip) <= Len(data))
    => WellFormedImage

\* C2 witness: the last frame and the last mip of a two-frame, two-mip RGB
\* container, decoded to one pixel.
C2_Witness ==
    /\ InRange /\ header.high_fmt = 2
    /\ header.frame_count = 2 /\ header.mipmap_count = 2
    /\ result.frame = 1 /\ result.mip = 1
    /\ PlaneStart(1, 1) + PlaneSize(1) <= Len(data)
    /\ result.status = "ok" /\ Len(result.pixels) = 4

\* Where the output channel c (0 = R .. 3 = A) of a pixel comes from in the
\* source pixel of an uncompressed format; 4 stands for the constant 255.
ChannelSource(fmt, c) ==
    CASE fmt = 0 -> <<0, 1, 2, 3>>[c + 1]
      [] fmt = 1 -> <<3, 2, 1, 0>>[c + 1]
      [] fmt = 2 -> <<0, 1, 2, 4>>[c + 1]
      [] fmt = 3 -> <<2, 1, 0, 4>>[c + 1]
      [] fmt = 11 -> <<1, 2, 3, 0>>[c + 1]
      [] fmt = 12 -> <<2, 1, 0, 3>>[c + 1]

\* C3: for an uncompressed format the pixels get_image returns are the
\* per-pixel channel permutation of the plane_byte_size bytes stored at
\* PlaneStart: RGBA unmodified; ABGR, ARGB and BGRA reordered to (R,G,B,A);
\* RGB and BGR reordered to (R,G,B) and followed by alpha 255.
C3_PixelsArePermutedStoredBytes ==
    (/\ pc = "ready" /\ result.op = "get_image" /\ result.status = "ok"
     /\ header.high_fmt \in Uncompressed)
    => LET fmt == header.high_fmt
           start == PlaneStart(result.frame, result.mip)
           size == PlaneSize(result.mip)
           stride == IF fmt \in {2, 3} THEN 3 ELSE 4
           n == result.w * result.h
       IN  /\ result.offset = start /\ result.size = size
           /\ size = stride * n
           /\ fmt = 0 =>
                 /\ result.pixels = Slice(data, start, start + size)
                 /\ start + size <= Len(data) => Len(result.pixels) = size
           /\ fmt /= 0 =>
                 /\ Len(result.pixels) = 4 * n
                 /\ start + size <= Len(data) \/ n = 0
                 /\ \A i \in 0..(n - 1), c \in 0..3 :
                       result.pixels[4 * i + c + 1] =
                          IF ChannelSource(fmt, c) = 4 THEN 255
                          ELSE data[start + stride * i + ChannelSource(fmt, c) + 1]

\* C3 witness: the BGRA pixel (10, 20, 30, 40) has been decoded to
\* (30, 20, 10, 40), or the 16 bytes of a 2x2 RGBA plane have been returned
\* as they are stored.
C3_Witness ==
    /\ pc = "ready" /\ result.op = "get_image" /\ result.status = "ok"
    /\ \/ /\ header.high_fmt = 12
          /\ result.block = <<10, 20, 30, 40>>
          /\ result.pixels = <<30, 20, 10, 40>>
       \/ /\ header.high_fmt = 0 /\ header.mipmap_count = 1 /\ header.frame_count = 1
          /\ header.width = 2 /\ header.height = 2
          /\ result.pixels = [j \in 1..16 |-> 10 * j]
          /\ result.pixels = Slice(data, hri_offset, hri_offset + 16)

\* The scanned directory entries (at most ScanLimit of them, 8 bytes each,
\* from DirStart on) whose first byte is in the buffer and is the tag 0x30.
TaggedEntries ==
    { k \in 0..(ScanLimit - 1) :
        /\ DirStart + 8 * k < Len(data)
        /\ data[DirStart + 8 * k + 1] = HriTag }

FirstTagged == CHOOSE k \in TaggedEntries : \A j \in TaggedEntries : k <= j

\* The little-endian uint32 in bytes 4..7 of directory entry k.
EntryOffset(k) ==
    data[DirStart + 8 * k + 5] + 256 * data[DirStart + 8 * k + 6]
    + 65536 * data[DirStart + 8 * k + 7] + 16777216 * data[DirStart + 8 * k + 8]

\* C4: the image locator's result is selected by version.minor alone: 0x40 +
\* the low-res plane size for minor 1; that plus 0x10 * frame_count for
\* minor 2; for minor >= 3 the uint32 in bytes 4..7 of the first of at most
\* 10 directory entries from 0x50 on whose tag is 0x30, and 0xE8 when there
\* is none before the entries or the buffer run out.
C4_LocatorByMinor ==
    pc = "ready" =>
        LET low == byte_size_fmt(header.low_fmt, header.low_width, header.low_height)
        IN  /\ header.version[2] = 1 => hri_offset = 64 + low.val
            /\ header.version[2] = 2 =>
                  hri_offset = 64 + low.val + 16 * header.frame_count
            /\ header.version[2] >= 3 =>
                  hri_offset = IF TaggedEntries = {} THEN 232
                               ELSE EntryOffset(FirstTagged)

\* C4 witness: a minor-3 container whose tag 0x30 sits in the second entry,
\* or whose only tag 0x30 sits in the eleventh and which got 0xE8.
C4_Witness ==
    /\ pc = "ready" /\ header.version[2] = 3
    /\ \/ /\ TaggedEntries /= {} /\ FirstTagged = 1 /\ hri_offset = 96
       \/ /\ TaggedEntries = {} /\ hri_offset = 232
          /\ Len(data) >= DirStart + 8 * ScanLimit + 8
          /\ data[DirStart + 8 * ScanLimit + 1] = HriTag

\* C8: for each block-compressed format Format Geometry recognises (0x0D,
\* 0x0E, 0x0F) an in-range get_image hands the extracted plane bytes with
\* (format, width, height) to the external block decompressor and returns
\* its result; it never routes the format to the local decoder and never
\* fails with UnsupportedFormat.
C8_BlockFormatsGoToDecompressor ==
    (InRange /\ header.high_fmt \in BlockCompressed)
    => /\ result.status = "ok"
       /\ result.via = "decode_dxt"
       /\ result.block = Slice(data, PlaneStart(result.frame, result.mip),
                               PlaneStart(result.frame, result.mip)
                               + PlaneSize(result.mip))
       /\ result.w = Shr(header.width, result.mip)
       /\ result.h = Shr(header.height, result.mip)

\* The buffer starts with the signature and holds the 80 bytes of the
\* fixed header, and __init__ has run on it.
ConstructedFromFullHeader ==
    /\ pc \in {"ready", "failed"}
    /\ Len(data) >= 80
    /\ SubSeq(data, 1, 4) = <<86, 84, 70, 0>>

\* version.minor and low_res_format as the buffer stores them.
StoredMinor ==
    data[9] + 256 * data[10] + 65536 * data[11] + 16777216 * data[12]
StoredLowFmt ==
    data[58] + 256 * data[59] + 65536 * data[60] + 16777216 * data[61]

\* C9 as stated: construction fails only when the header decoder fails: on
\* every buffer that starts with the signature and holds the complete
\* 80-byte header it succeeds, whatever version.minor, the format codes and
\* the resource directory are.  Stated here for the buffers that also hold
\* all ten directory entries the scan may read, which are among them.
C9_FullHeaderAlwaysConstructs ==
    (ConstructedFromFullHeader /\ Len(data) >= DirStart + 8 * ScanLimit)
    => pc = "ready"

\* C9 amended: on such a buffer construction fails in exactly two cases:
\* version.minor is 1 or 2 and low_res_format is not a recognised code (the
\* locator's Format Geometry call raises), or version.minor is neither 1
\* nor 2 and the scan finds tag 0x30 in an entry whose bytes 4..7 the
\* buffer does not hold (the read raises).  Otherwise it succeeds: a scan
\* that finds no tag before the buffer ends yields 0xE8, and an unrecognised
\* high_res_format is reported by the in-range get_image calls.
C9_ConstructionFailsOnlyInLocator ==
    ConstructedFromFullHeader =>
        LET lowRaises == StoredMinor \in {1, 2} /\ StoredLowFmt \notin Recognised
            cutEntry == /\ StoredMinor \notin {1, 2}
                        /\ TaggedEntries /= {}
                        /\ DirStart + 8 * FirstTagged + 8 > Len(data)
        IN  /\ pc = "failed" <=> (lowRaises \/ cutEntry)
            /\ (pc = "failed" /\ lowRaises) => error = "ValueError"
            /\ (pc = "failed" /\ cutEntry) => error = "struct.error"
            /\ (pc = "ready" /\ StoredMinor \notin {1, 2} /\ TaggedEntries = {})
               => hri_offset = 232
            /\ (InRange /\ header.high_fmt \notin Recognised)
               => result.status = "ValueError"

\* C9 witness: a minor-3 container whose low_res_format and high_res_format
\* are both unrecognised has been constructed, and an in-range get_image on
\* it has raised.
C9_Witness ==
    /\ ConstructedFromFullHeader /\ InRange
    /\ StoredMinor = 3 /\ StoredLowFmt = 16 /\ header.high_fmt = 16
    /\ result.status = "ValueError"

\* The bytes of the planes of mips i .. mipmap_count-1, all frames.
RECURSIVE PyramidBytes(_)
PyramidBytes(i) ==
    IF i >= header.mipmap_count THEN 0
    ELSE PlaneSize(i) * header.frame_count + PyramidBytes(i + 1)

\* C10: for a recognised high_res_format the byte ranges [offset, offset +
\* plane_byte_size) get_image reads tile one region: the plane of (frame 0,
\* mip mipmap_count-1) starts at hri_offset, planes follow by decreasing mip
\* and, within a mip, by increasing frame, each plane starts where the one
\* before it ends, and the plane of (frame_count-1, mip 0) ends at
\* hri_offset + the sum of plane_byte_size * frame_count over all mips.
C10_PlanesTileTheRegion ==
    (InRange /\ header.high_fmt \in Recognised)
    => LET f == result.frame
           m == result.mip
           last == f = header.frame_count - 1 /\ m = 0
           nf == IF f + 1 < header.frame_count THEN f + 1 ELSE 0
           nm == IF f + 1 < header.frame_count THEN m ELSE m - 1
       IN  /\ result.size = PlaneSize(m)
           /\ (f = 0 /\ m = header.mipmap_count - 1) => result.offset = hri_offset
           /\ ~last =>
                 get_image(data, header, hri_offset, nf, nm).offset
                 = result.offset + result.size
           /\ last => result.offset + result.size = hri_offset + PyramidBytes(0)

\* C10 witness: the last frame of mip 1 of a two-frame, two-mip container
\* has been read, its plane is not empty, and the plane that follows it is
\* frame 0 of mip 0.
C10_Witness ==
    /\ InRange /\ header.high_fmt \in Recognised
    /\ header.frame_count = 2 /\ header.mipmap_count = 2
    /\ result.frame = 1 /\ result.mip = 1 /\ result.size > 0
    /\ get_image(data, header, hri_offset, 0, 0).offset = result.offset + result.size
    /\ result.offset = hri_offset + result.size

====
